---- MODULE Spec2Model ----
(***************************************************************************)
(* Model of xenaex/daccs-cli: the channel payment allocator                *)
(* (commands.ChannelsSelector.FundPayment).                                *)
(*                                                                         *)
(* Amounts are decimal.Decimal values in the source.  Every balance comes  *)
(* from satoshiToBTC (decimal.New(sat, -8)), so an amount is modelled as   *)
(* the integer number of 10^-8 units it holds.  The quotient               *)
(* LocalBalance / totalLocal is not such a multiple: it is kept as its     *)
(* integer part and its DivisionPrecision fractional decimal digits, the   *)
(* way decimal.Div produces it, and the product and the rounding are       *)
(* computed on those digits.                                               *)
(***************************************************************************)
EXTENDS Integers, Sequences, FiniteSets, TLC

\* ---------------------------------------------------------------- bounds
MaxChannels == 3
MaxAddrs == 3             \* remote addresses channelOpen opens channels to
MaxCapacity == 35         \* largest capacity, in 10^-CapacityScale units
MinPrecision == 7         \* coarsest roundPrecision a selector is built with
SendChannels == 3         \* channels of a payment whose sending is followed
MaxPermuted == 3          \* lists up to this length are compared in every order
MaxBalance == 5
MaxMinPayment == 2
MaxAmount == 12
NumNodes == 2
\* A second family of inputs: longer lists over two balances, a small one
\* and a big one, where clamped shares and rounding losses add up.
WideChannels == 7
LowBalance == 2
BigBalance == 27

\* ------------------------------------------------------ program constants
satoshiPrecision == 8
channelFundingPrecision == 3
recreateAfterUnlockAttemptsCount == 5
CapacityScale == 4        \* a capacity is an integer count of 10^-4 units
BalanceScale == 8
DivisionPrecision == 16
ShellGap == 6
SmallSlice == 12

\* --------------------------------------------------------------- helpers
RECURSIVE Pow10(_)
Pow10(n) == IF n = 0 THEN 1 ELSE 10 * Pow10(n - 1)

RECURSIVE SumAmounts(_)
SumAmounts(ps) == IF ps = <<>> THEN 0 ELSE Head(ps).Amount + SumAmounts(Tail(ps))

\* ------------------------------------------------- decimal.Decimal pieces
\* The fractional digits of r / d (r < d), most significant first, and the
\* remainder left after the last digit.
RECURSIVE QuoRemDigits(_, _, _)
QuoRemDigits(r, d, k) ==
    IF k = 0 THEN [frac |-> <<>>, rem |-> r]
    ELSE LET rest == QuoRemDigits((r * 10) % d, d, k - 1)
         IN  [frac |-> <<(r * 10) \div d>> \o rest.frac, rem |-> rest.rem]

\* decimal.QuoRem: n / d truncated to precision fractional digits.
QuoRem(n, d, precision) ==
    LET t == QuoRemDigits(n % d, d, precision)
    IN  [int |-> n \div d, frac |-> t.frac, rem |-> t.rem]

\* Adds one unit in the last place of a digit string, with its carry.
RECURSIVE IncDigits(_)
IncDigits(ds) ==
    IF ds = <<>> THEN [digits |-> <<>>, carry |-> 1]
    ELSE LET n == Len(ds)
         IN  IF ds[n] < 9
             THEN [digits |-> [ds EXCEPT ![n] = ds[n] + 1], carry |-> 0]
             ELSE LET h == IncDigits(SubSeq(ds, 1, n - 1))
                  IN  [digits |-> h.digits \o <<0>>, carry |-> h.carry]

\* decimal.DivRound: the truncated quotient, plus one unit in the last place
\* when twice the remainder reaches the divisor (operands are non-negative).
DivRound(n, d, precision) ==
    LET q == QuoRem(n, d, precision)
    IN  IF 2 * q.rem < d
        THEN [int |-> q.int, frac |-> q.frac]
        ELSE LET inc == IncDigits(q.frac)
             IN  [int |-> q.int + inc.carry, frac |-> inc.digits]

\* decimal.Div
Div(n, d) == DivRound(n, d, DivisionPrecision)

\* Product of a digit string by an integer, least significant digit first.
RECURSIVE MulDigits(_, _)
MulDigits(a, ds) ==
    IF ds = <<>> THEN [digits |-> <<>>, carry |-> 0]
    ELSE LET lo == MulDigits(a, Tail(ds))
             v  == a * Head(ds) + lo.carry
         IN  [digits |-> <<v % 10>> \o lo.digits, carry |-> v \div 10]

\* decimal.Mul of an amount (integer count of units) by a quotient: exact.
Mul(a, x) ==
    LET m == MulDigits(a, x.frac)
    IN  [int |-> a * x.int + m.carry, frac |-> m.digits]

\* Variant: the digits beyond places are dropped (decimal.Truncate).
RoundTruncate(x, places) ==
    LET k == BalanceScale - places
    IN  (x.int \div Pow10(k)) * Pow10(k)

\* decimal.Round(places) of a non-negative value given in 10^-BalanceScale
\* units: truncate to places + 1 digits, add 5, drop the last digit.
Round(x, places) ==
    LET k == BalanceScale - places
    IN  IF k = 0
        THEN (x.int * 10 + x.frac[1] + 5) \div 10
        ELSE (((x.int \div Pow10(k - 1)) + 5) \div 10) * Pow10(k)

\* ------------------------------------------------------------------ state
VARIABLES
    s,                 \* the ChannelsSelector
    amount,            \* argument amount
    channels,          \* argument channels (the caller's slice)
    pc,                \* position in FundPayment
    filteredChannels,
    totalLocal,
    channelPayments,
    amountLeft,
    i,                 \* index of the range loop (1-based)
    ret,               \* returned plan: [nil, items]
    err                \* returned error: [kind, args]

\* paymentSend, the caller of FundPayment, from line 128 on.
VARIABLES
    sendPc,            \* position in paymentSend
    invoicesByPoint,
    sendIndex,         \* index of the range loop of line 144 (1-based)
    result,            \* PaymentResult
    sendLog,           \* the calls of lncli.SendPayment made, with their outcome
    response,          \* what ResponseError / ResponseJSON was given
    limits,            \* clients.Limits, the field paymentSend reads
    apiCalls,          \* the calls made to the API and to the lnd node, in order
    returned           \* the error paymentSend returns, "" while it has not

sendVars == <<sendPc, invoicesByPoint, sendIndex, result, sendLog, response,
              limits, apiCalls, returned>>

\* channelOpen (the multi-node one), from line 146 on.
VARIABLES
    capacity,          \* the capacity asked for
    addrs,             \* the remote addresses
    channelFunds,
    fundsTotal,
    openPc,            \* position of channelOpen
    openIndex,         \* index of the range loop of line 165 (1-based)
    wg,                \* the WaitGroup counter
    streams,           \* the goroutine of each OpenChannel call that returned nil
    consumer,          \* position of the goroutine of lines 174-184
    received,          \* the value r it took from respChan
    respChanClosed,
    resp,              \* PendingChannels and Errors
    delivered,         \* the number of values each address has put on respChan
    output             \* what ResponseJSON was given

openVars == <<capacity, addrs, channelFunds, fundsTotal, openPc, openIndex, wg,
              streams, consumer, received, respChanClosed, resp, delivered, output>>

\* NewLndClient, from the wallet unlock on.
VARIABLES
    lndPc,             \* position in NewLndClient
    attempt,           \* the loop variable i of line 181
    conn,              \* the connection held: the number of dials made, 0 when closed
    lndCalls,          \* the calls made after the unlock, with their outcome
    lndErr,            \* err
    lndReturn          \* what NewLndClient returns: client and error

lndVars == <<lndPc, attempt, conn, lndCalls, lndErr, lndReturn>>

vars == <<s, amount, channels, pc, filteredChannels, totalLocal,
          channelPayments, amountLeft, i, ret, err, sendVars, openVars, lndVars>>

NoError == [kind |-> "nil", args |-> <<>>]
NilPlan == [nil |-> TRUE, items |-> <<>>]
Plan(ps) == [nil |-> FALSE, items |-> ps]

\* clients.ChannelStatus, the fields FundPayment reads.
ChannelStatus(id, point, node, local) ==
    [ID |-> id, ChannelPoint |-> point, Node |-> node, LocalBalance |-> local]

\* commands.ChannelPayment
ChannelPayment(c, amt) ==
    [ID |-> c.ID, ChannelPoint |-> c.ChannelPoint, Node |-> c.Node, Amount |-> amt,
     Error |-> ""]

NewChannelsSelector(minPaymentAmount, roundPrecision) ==
    [minPaymentAmount       |-> minPaymentAmount,
     doubleMinPaymentAmount |-> minPaymentAmount * 2,
     roundPrecision         |-> roundPrecision]

\* Channel lists with distinct IDs and channel points: the k-th channel of
\* the list has ID k and channel point 100 + k.
ChannelList(bals) ==
    [k \in 1..Len(bals) |->
        ChannelStatus(k, 100 + k, ((k - 1) % NumNodes) + 1, bals[k])]

BalanceLists(maxLen, balances) ==
    UNION {[1..n -> balances] : n \in 0..maxLen}

\* PaymentResult{} and the other locals of paymentSend before line 128.
PaymentResult == [Successful |-> <<>>, Errors |-> <<>>]

NoResponse == [kind |-> "none", body |-> PaymentResult]

\* channelOpen has not reached line 146.
OpenNotStarted ==
    /\ capacity = 0
    /\ addrs = <<>>
    /\ channelFunds = <<>>
    /\ fundsTotal = 0
    /\ openPc = "idle"
    /\ openIndex = 0
    /\ wg = 0
    /\ streams = <<>>
    /\ consumer = "not started"
    /\ received = <<>>
    /\ respChanClosed = FALSE
    /\ resp = [PendingChannels |-> <<>>, Errors |-> <<>>]
    /\ delivered = <<>>
    /\ output = <<>>

\* NewLndClient has not unlocked a wallet.
LndNotStarted ==
    /\ lndPc = "idle"
    /\ attempt = 0
    /\ conn = 0
    /\ lndCalls = <<>>
    /\ lndErr = "nil"
    /\ lndReturn = <<>>

\* Limits{} before line 82.
NoLimits == [MinPaymentAmount |-> 0]

SendNotStarted ==
    /\ limits = NoLimits
    /\ apiCalls = <<>>
    /\ returned = ""
    /\ sendPc = "fund"
    /\ OpenNotStarted
    /\ LndNotStarted
    /\ invoicesByPoint = <<>>
    /\ sendIndex = 0
    /\ result = PaymentResult
    /\ sendLog = <<>>
    /\ response = NoResponse

InitWith(mins, precisions, amounts, lists) ==
    /\ \E m \in mins, p \in precisions : s = NewChannelsSelector(m, p)
    /\ amount \in amounts
    /\ \E bals \in lists : channels = ChannelList(bals)
    /\ pc = "filter"
    /\ filteredChannels = <<>>
    /\ totalLocal = 0
    /\ channelPayments = <<>>
    /\ amountLeft = 0
    /\ i = 0
    /\ ret = NilPlan
    /\ err = NoError
    /\ SendNotStarted

WideBalances == {LowBalance, BigBalance}

\* The selector is built with the precision paymentSend passes
\* (satoshiPrecision); for the short channel lists also with a coarser one.
Init ==
    \/ InitWith(1..MaxMinPayment, MinPrecision..satoshiPrecision, 0..MaxAmount,
                BalanceLists(MaxChannels, 0..MaxBalance))
    \/ InitWith(1..MaxMinPayment, {satoshiPrecision}, 0..MaxAmount,
                BalanceLists(WideChannels, WideBalances))

\* ---------------------------------------------------------------- actions
Return(plan, e) ==
    /\ pc' = "done"
    /\ ret' = plan
    /\ err' = e

\* Variant: a failure hands back the payments accumulated so far.
ReturnErrorPartial(e) == Return(Plan(channelPayments), e)

\* The three failures: return nil, fmt.Errorf(...)
ReturnError(e) == Return(NilPlan, e)

\* Variant: a channel holding exactly the floor is dropped too.
EligibleStrict(c) == c.LocalBalance > s.minPaymentAmount

\* Variant: no channel is dropped.
EligibleAny(c) == TRUE

\* Line 42
Eligible(c) == ~(c.LocalBalance < s.minPaymentAmount)

RECURSIVE SumLocal(_)
SumLocal(cs) == IF cs = <<>> THEN 0 ELSE Head(cs).LocalBalance + SumLocal(Tail(cs))

\* Lines 39-47: filter the channels and add up their local balances.
Filter ==
    /\ pc = "filter"
    /\ filteredChannels' = SelectSeq(channels, Eligible)
    /\ totalLocal' = SumLocal(SelectSeq(channels, Eligible))
    /\ pc' = "check"
    /\ UNCHANGED <<openVars, lndVars, sendVars, s, amount, channels, channelPayments, amountLeft, i, ret, err>>

\* Variant: the message carries the requested amount instead.
InsufficientErrorAmount == [kind |-> "insufficient", args |-> <<amount>>]

\* Line 49: the message is formatted from totalLocal alone.
InsufficientError == [kind |-> "insufficient", args |-> <<totalLocal>>]

\* Variant: an amount equal to the total is refused as well.
InsufficientOrEqual == amount >= totalLocal

\* Line 48
Insufficient == amount > totalLocal

\* Lines 48-50
InsufficientBalance ==
    /\ pc = "check"
    /\ Insufficient
    /\ ReturnError(InsufficientError)
    /\ UNCHANGED <<openVars, lndVars, sendVars, s, amount, channels, filteredChannels, totalLocal,
                   channelPayments, amountLeft, i>>

\* Variant: the comparison is turned round, the highest balance comes first.
LessDescending(a, b) == a.LocalBalance > b.LocalBalance

\* Lines 53-55: the less function handed to sort.Slice.
Less(a, b) == a.LocalBalance < b.LocalBalance

Swap(cs, a, b) == [cs EXCEPT ![a] = cs[b], ![b] = cs[a]]

\* sort's insertion sort: element k sinks while it is Less than the one
\* before it.
RECURSIVE InsertionSink(_, _)
InsertionSink(cs, j) ==
    IF j > 1 /\ Less(cs[j], cs[j - 1])
    THEN InsertionSink(Swap(cs, j, j - 1), j - 1)
    ELSE cs

RECURSIVE InsertionSort(_, _)
InsertionSort(cs, k) ==
    IF k > Len(cs) THEN cs ELSE InsertionSort(InsertionSink(cs, k), k + 1)

\* sort's single shell pass over a short slice: element k is swapped with
\* the one ShellGap places before it when it is Less.
RECURSIVE ShellPass(_, _)
ShellPass(cs, k) ==
    IF k > Len(cs) THEN cs
    ELSE ShellPass(IF Less(cs[k], cs[k - ShellGap]) THEN Swap(cs, k, k - ShellGap) ELSE cs,
                   k + 1)

\* Any rearrangement in which no element is Less than one before it.
SortedRearrangements(cs) ==
    {[k \in 1..Len(cs) |-> cs[p[k]]] :
        p \in {q \in Permutations(1..Len(cs)) :
                 \A a, b \in 1..Len(cs) : a < b => ~Less(cs[q[b]], cs[q[a]])}}

\* sort.Slice.  On a slice of at most SmallSlice elements the order it
\* leaves depends on the toolchain that built the program: an insertion
\* sort, which the sort package up to Go 1.18 (the module declares go 1.12)
\* precedes by one shell pass.  Both are outcomes.  On a longer slice the
\* sort is only known to order the elements: it is not guaranteed stable.
SortSliceNone(cs) == {cs}

\* Lines 53-55: sort.Slice.
SortSlice(cs) ==
    IF Len(cs) <= SmallSlice
    THEN {InsertionSort(cs, 2), InsertionSort(ShellPass(cs, ShellGap + 1), 2)}
    ELSE SortedRearrangements(cs)

\* Variant: the caller's slice is sorted as well.
SortInPlace ==
    /\ pc = "check"
    /\ ~Insufficient
    /\ filteredChannels' \in SortSlice(filteredChannels)
    /\ channels' \in SortSlice(channels)
    /\ channelPayments' = <<>>
    /\ amountLeft' = amount
    /\ i' = 1
    /\ pc' = "loop"
    /\ UNCHANGED <<openVars, lndVars, sendVars, s, amount, totalLocal, ret, err>>

\* Lines 53-59
Sort ==
    /\ pc = "check"
    /\ ~Insufficient
    /\ filteredChannels' \in SortSlice(filteredChannels)
    /\ channelPayments' = <<>>
    /\ amountLeft' = amount
    /\ i' = 1
    /\ pc' = "loop"
    /\ UNCHANGED <<openVars, lndVars, sendVars, s, amount, channels, totalLocal, ret, err>>

\* Line 60, range exhausted, and line 108.
LoopEnd ==
    /\ pc = "loop"
    /\ i > Len(filteredChannels)
    /\ Return(Plan(channelPayments), NoError)
    /\ UNCHANGED <<openVars, lndVars, sendVars, s, amount, channels, filteredChannels, totalLocal,
                   channelPayments, amountLeft, i>>

\* Lines 61-63 and 108.
ZeroBreak ==
    /\ pc = "loop"
    /\ i <= Len(filteredChannels)
    /\ amountLeft = 0
    /\ Return(Plan(channelPayments), NoError)
    /\ UNCHANGED <<openVars, lndVars, sendVars, s, amount, channels, filteredChannels, totalLocal,
                   channelPayments, amountLeft, i>>

\* Variant: a rest of exactly twice the floor is handled in terminal mode too.
InTerminalInclusive ==
    /\ pc = "loop"
    /\ i <= Len(filteredChannels)
    /\ amountLeft # 0
    /\ amountLeft <= s.doubleMinPaymentAmount

\* Line 64 (with the guards of lines 60 and 61).
InTerminal ==
    /\ pc = "loop"
    /\ i <= Len(filteredChannels)
    /\ amountLeft # 0
    /\ amountLeft < s.doubleMinPaymentAmount

\* Variant: the inner scan starts at the first channel of the list.
TerminalCandidatesFromStart ==
    {j \in 1..Len(filteredChannels) :
        ~(amountLeft > filteredChannels[j].LocalBalance)}

\* Lines 68-72: the indexes the inner scan does not skip.
TerminalCandidates ==
    {j \in i..Len(filteredChannels) :
        ~(amountLeft > filteredChannels[j].LocalBalance)}

FirstCandidate == CHOOSE j \in TerminalCandidates : \A k \in TerminalCandidates : j <= k

\* Lines 64-81, 85 and 108: found.
TerminalFound ==
    /\ InTerminal
    /\ TerminalCandidates # {}
    /\ channelPayments' =
          Append(channelPayments, ChannelPayment(filteredChannels[FirstCandidate], amountLeft))
    /\ Return(Plan(channelPayments'), NoError)
    /\ UNCHANGED <<openVars, lndVars, sendVars, s, amount, channels, filteredChannels, totalLocal, amountLeft, i>>

\* Variant: the message carries the requested amount, not what is left.
NoTerminalErrorAmount == [kind |-> "noterminal", args |-> <<amount>>]

\* Line 83: the message is formatted from amountLeft.
NoTerminalError == [kind |-> "noterminal", args |-> <<amountLeft>>]

\* Lines 64-72 and 82-84: not found.
TerminalNotFound ==
    /\ InTerminal
    /\ TerminalCandidates = {}
    /\ ReturnError(NoTerminalError)
    /\ UNCHANGED <<openVars, lndVars, sendVars, s, amount, channels, filteredChannels, totalLocal,
                   channelPayments, amountLeft, i>>

InProportional ==
    /\ pc = "loop"
    /\ i <= Len(filteredChannels)
    /\ amountLeft # 0
    /\ ~(amountLeft < s.doubleMinPaymentAmount)

\* Variant: the share is taken of what is left to pay.
ShareOfLeft(c) == Round(Mul(amountLeft, Div(c.LocalBalance, totalLocal)), satoshiPrecision)

\* Line 94
Share(c) == Round(Mul(amount, Div(c.LocalBalance, totalLocal)), satoshiPrecision)

\* Variant: a share below the floor is kept as computed.
ClampNone(a) == a

\* Lines 95-97
Clamp(a) == IF a < s.minPaymentAmount THEN s.minPaymentAmount ELSE a

\* Variant: amountLeft is reduced by the share as computed, not as clamped.
NonLastChannelDebitShare ==
    /\ InProportional
    /\ i < Len(filteredChannels)
    /\ LET c == filteredChannels[i]
       IN  /\ amountLeft' = amountLeft - Share(c)
           /\ channelPayments' = Append(channelPayments, ChannelPayment(c, Clamp(Share(c))))
    /\ i' = i + 1
    /\ UNCHANGED <<openVars, lndVars, sendVars, s, amount, channels, pc, filteredChannels, totalLocal, ret, err>>

\* Lines 87-98 and 106: a non-last channel.
NonLastChannel ==
    /\ InProportional
    /\ i < Len(filteredChannels)
    /\ LET c   == filteredChannels[i]
           amt == Clamp(Share(c))
       IN  /\ amountLeft' = amountLeft - amt
           /\ channelPayments' = Append(channelPayments, ChannelPayment(c, amt))
    /\ i' = i + 1
    /\ UNCHANGED <<openVars, lndVars, sendVars, s, amount, channels, pc, filteredChannels, totalLocal, ret, err>>

\* Variant: the last channel is paid its own rounded share, not the rest.
LastChannelOwnShare ==
    /\ InProportional
    /\ ~(i < Len(filteredChannels))
    /\ ~(amountLeft > filteredChannels[i].LocalBalance)
    /\ channelPayments' =
          Append(channelPayments,
                 ChannelPayment(filteredChannels[i], Share(filteredChannels[i])))
    /\ i' = i + 1
    /\ UNCHANGED <<openVars, lndVars, sendVars, s, amount, channels, pc, filteredChannels, totalLocal,
                   amountLeft, ret, err>>

\* Lines 87-91, 99-106: the last channel.
LastChannel ==
    /\ InProportional
    /\ ~(i < Len(filteredChannels))
    /\ ~(amountLeft > filteredChannels[i].LocalBalance)
    /\ channelPayments' =
          Append(channelPayments, ChannelPayment(filteredChannels[i], amountLeft))
    /\ i' = i + 1
    /\ UNCHANGED <<openVars, lndVars, sendVars, s, amount, channels, pc, filteredChannels, totalLocal,
                   amountLeft, ret, err>>

LastChannelError ==
    [kind |-> "lastchannel", args |-> <<filteredChannels[i].LocalBalance, amountLeft>>]

\* Lines 99-103
LastChannelInsufficient ==
    /\ InProportional
    /\ ~(i < Len(filteredChannels))
    /\ amountLeft > filteredChannels[i].LocalBalance
    /\ ReturnError(LastChannelError)
    /\ UNCHANGED <<openVars, lndVars, sendVars, s, amount, channels, filteredChannels, totalLocal,
                   channelPayments, amountLeft, i>>

Next ==
    \/ Filter
    \/ InsufficientBalance
    \/ Sort
    \/ LoopEnd
    \/ ZeroBreak
    \/ TerminalFound
    \/ TerminalNotFound
    \/ NonLastChannel
    \/ LastChannel
    \/ LastChannelInsufficient

Spec == Init /\ [][Next]_vars

\* ----------------------------------------------------------------- claims
Success == pc = "done" /\ err = NoError

\* The input channel a payment names, found by its channel point.
ChannelOf(p) ==
    channels[CHOOSE k \in DOMAIN channels : channels[k].ChannelPoint = p.ChannelPoint]

\* The sum of the local balances of the input channels that hold at least
\* the floor, added up over the caller's list.
RECURSIVE EligibleTotalUpTo(_)
EligibleTotalUpTo(n) ==
    IF n = 0 THEN 0
    ELSE EligibleTotalUpTo(n - 1)
         + (IF channels[n].LocalBalance >= s.minPaymentAmount
            THEN channels[n].LocalBalance ELSE 0)

EligibleTotal == EligibleTotalUpTo(Len(channels))

EligibleIndexes == {k \in DOMAIN channels : channels[k].LocalBalance >= s.minPaymentAmount}

\* The positions of the returned plan whose payment is a share clamped up
\* to the floor.
ClampedPositions(ps) ==
    {k \in DOMAIN ps :
        /\ k < Len(filteredChannels)
        /\ ps[k].ChannelPoint = filteredChannels[k].ChannelPoint
        /\ Share(filteredChannels[k]) < s.minPaymentAmount
        /\ ps[k].Amount = s.minPaymentAmount}

\* The run ended in terminal mode (lines 64-85) with a payment.
EndedInTerminal == Success /\ i <= Len(filteredChannels) /\ amountLeft # 0

\* The run ended after the last channel took the rest (lines 99-105).
EndedAtLastChannel == Success /\ i > Len(filteredChannels) /\ ret.items # <<>>

\* C1: when FundPayment(amount, channels) with amount > 0 returns without
\* error, the amounts of the returned payments add up to amount exactly.
C1_SumExact ==
    (Success /\ amount > 0) => SumAmounts(ret.items) = amount

\* C1 witness: a plan of three or more payments, one of them clamped up to
\* the floor, completed by the last channel.
C1_Witness ==
    /\ EndedAtLastChannel
    /\ amount > 0
    /\ Len(ret.items) >= 3
    /\ ClampedPositions(ret.items) # {}

\* C2 (fails on the code): every payment of a returned plan, for amount > 0
\* and minPaymentAmount > 0, has Amount > 0.
C2_AllPositive ==
    (Success /\ amount > 0 /\ s.minPaymentAmount > 0) =>
        \A k \in DOMAIN ret.items : ret.items[k].Amount > 0

\* C3: every payment of a returned plan has Amount <= the LocalBalance of
\* the channel it is assigned to.
C3_WithinBalance ==
    Success =>
        \A k \in DOMAIN ret.items :
            ret.items[k].Amount <= ChannelOf(ret.items[k]).LocalBalance

\* C3 witness: a share clamped up to the floor on a channel that holds
\* exactly the floor.
C3_Witness ==
    /\ Success
    /\ \E k \in ClampedPositions(ret.items) :
          ChannelOf(ret.items[k]).LocalBalance = s.minPaymentAmount

\* C4 (fails on the code): for amount >= minPaymentAmount, every payment of
\* a returned plan has Amount >= minPaymentAmount.
C4_NoDust ==
    (Success /\ amount >= s.minPaymentAmount) =>
        \A k \in DOMAIN ret.items : ret.items[k].Amount >= s.minPaymentAmount

\* C5: a step that pays a non-last channel in proportional mode appends one
\* payment of at least minPaymentAmount, of exactly minPaymentAmount when the
\* computed share is below it, and reduces amountLeft by the amount paid.
C5_NonLastAtLeastFloor ==
    [][(pc = "loop" /\ pc' = "loop" /\ i < Len(filteredChannels) /\ i' = i + 1) =>
         /\ Len(channelPayments') = Len(channelPayments) + 1
         /\ SubSeq(channelPayments', 1, Len(channelPayments)) = channelPayments
         /\ LET p == channelPayments'[Len(channelPayments')]
            IN  /\ p.ChannelPoint = filteredChannels[i].ChannelPoint
                /\ p.Amount >= s.minPaymentAmount
                /\ (Share(filteredChannels[i]) < s.minPaymentAmount
                       => p.Amount = s.minPaymentAmount)
                /\ amountLeft' = amountLeft - p.Amount]_vars

\* C5 witness: the loop has just paid a non-last channel a clamped share.
C5_Witness ==
    /\ pc = "loop"
    /\ i >= 2
    /\ (i - 1) \in ClampedPositions(channelPayments)
    /\ amountLeft < amount

\* C6: a channel with LocalBalance < minPaymentAmount is in no payment and
\* is not counted in totalLocal; a channel holding exactly minPaymentAmount
\* is kept by the filter.
C6_FilterBelowFloor ==
    /\ \A k \in DOMAIN channelPayments :
          ChannelOf(channelPayments[k]).LocalBalance >= s.minPaymentAmount
    /\ \A k \in DOMAIN ret.items :
          ChannelOf(ret.items[k]).LocalBalance >= s.minPaymentAmount
    /\ pc # "filter" =>
          /\ totalLocal = EligibleTotal
          /\ \A k \in DOMAIN channels :
                channels[k].LocalBalance = s.minPaymentAmount =>
                    \E j \in DOMAIN filteredChannels : filteredChannels[j] = channels[k]

\* C6 witness: a returned plan pays a channel that holds exactly the floor
\* while the input also had a channel below the floor.
C6_Witness ==
    /\ Success
    /\ \E k \in DOMAIN ret.items :
          ChannelOf(ret.items[k]).LocalBalance = s.minPaymentAmount
    /\ \E k \in DOMAIN channels :
          /\ channels[k].LocalBalance > 0
          /\ channels[k].LocalBalance < s.minPaymentAmount

\* C7: in a returned plan each channel point appears at most once, every
\* payment copies ID, ChannelPoint and Node of one eligible input channel,
\* and the plan has no more entries than there are eligible channels.
C7_ChannelOnce ==
    Success =>
        /\ \A a, b \in DOMAIN ret.items :
              a # b => ret.items[a].ChannelPoint # ret.items[b].ChannelPoint
        /\ \A a \in DOMAIN ret.items :
              \E k \in EligibleIndexes :
                  /\ ret.items[a].ID = channels[k].ID
                  /\ ret.items[a].ChannelPoint = channels[k].ChannelPoint
                  /\ ret.items[a].Node = channels[k].Node
        /\ Len(ret.items) <= Cardinality(EligibleIndexes)

\* C7 witness: terminal mode pays the rest to a later channel although a
\* channel paid before could have held it.
C7_Witness ==
    /\ EndedInTerminal
    /\ Len(ret.items) >= 2
    /\ \E k \in 1..(i - 1) : filteredChannels[k].LocalBalance >= amountLeft

\* C8: FundPayment fails with the insufficient-balance error exactly when
\* amount exceeds the sum of the balances of the channels with
\* LocalBalance >= minPaymentAmount.
C8_InsufficientIff ==
    pc = "done" => (err.kind = "insufficient" <=> amount > EligibleTotal)

\* C8 witness: the error is returned although the balances of all channels,
\* those below the floor included, would cover the amount.
C8_Witness ==
    /\ pc = "done"
    /\ err.kind = "insufficient"
    /\ amount <= SumLocal(channels)

\* C9 as stated (fails on the code): the insufficient-balance failure
\* reports the total eligible local balance and the requested amount.
C9_ReportsBoth ==
    (pc = "done" /\ err.kind = "insufficient") =>
        \E a, b \in DOMAIN err.args :
            a # b /\ err.args[a] = EligibleTotal /\ err.args[b] = amount

\* C9 amended: the insufficient-balance failure reports one quantity, the
\* total eligible local balance.
C9_ReportsTotalOnly ==
    (pc = "done" /\ err.kind = "insufficient") => err.args = <<EligibleTotal>>

\* C9 witness: an insufficient-balance failure where a channel below the
\* floor is left out of the reported total.
C9_Witness ==
    /\ pc = "done"
    /\ err.kind = "insufficient"
    /\ EligibleTotal > 0
    /\ EligibleTotal < SumLocal(channels)

\* C10: FundPayment returns a plan and no error, or an error and a nil
\* plan, whatever had been accumulated.
C10_PlanOrError ==
    pc = "done" =>
        \/ err = NoError /\ ~ret.nil /\ ret.items = channelPayments
        \/ err # NoError /\ ret.nil /\ ret.items = <<>>

\* C10 witness: a failure after payments had been accumulated.
C10_Witness ==
    /\ pc = "done"
    /\ err.kind \in {"noterminal", "lastchannel"}
    /\ channelPayments # <<>>
    /\ ret.nil

\* The input channels that hold at least the floor and at least amt.
FittingIndexes(amt) == {k \in EligibleIndexes : channels[k].LocalBalance >= amt}

\* C11: when 0 < amount < 2 x minPaymentAmount and some eligible channel
\* holds at least amount, the plan is one payment of the full amount on an
\* eligible channel whose balance is the smallest of those that hold amount.
C11_SingleSmallestFit ==
    (/\ pc = "done"
     /\ amount > 0
     /\ amount < 2 * s.minPaymentAmount
     /\ FittingIndexes(amount) # {}) =>
        /\ Success
        /\ Len(ret.items) = 1
        /\ ret.items[1].Amount = amount
        /\ \E k \in FittingIndexes(amount) :
              /\ ret.items[1].ChannelPoint = channels[k].ChannelPoint
              /\ \A j \in FittingIndexes(amount) :
                    channels[k].LocalBalance <= channels[j].LocalBalance

\* C11 witness: the channel paid is not the first of the input; before it
\* come an eligible channel too small for amount and a larger fitting one.
C11_Witness ==
    /\ Success
    /\ amount > 0
    /\ amount < 2 * s.minPaymentAmount
    /\ Len(ret.items) = 1
    /\ \E k \in FittingIndexes(amount) :
          /\ ret.items[1].ChannelPoint = channels[k].ChannelPoint
          /\ \E a, b \in 1..(k - 1) :
                /\ a \in EligibleIndexes /\ channels[a].LocalBalance < amount
                /\ channels[b].LocalBalance > channels[k].LocalBalance

\* C12: an iteration that starts with 0 < amountLeft < 2 x minPaymentAmount
\* and no channel from the current position on holding amountLeft ends the
\* call with the no-terminal-channel error, which reports amountLeft, and a
\* nil plan, although amount <= totalLocal.
C12_NoTerminalChannel ==
    [][(/\ pc = "loop"
        /\ i <= Len(filteredChannels)
        /\ amountLeft > 0
        /\ amountLeft < 2 * s.minPaymentAmount
        /\ \A j \in i..Len(filteredChannels) :
              filteredChannels[j].LocalBalance < amountLeft) =>
           /\ pc' = "done"
           /\ err' = [kind |-> "noterminal", args |-> <<amountLeft>>]
           /\ ret'.nil
           /\ amount <= EligibleTotal]_vars

\* C12 witness: amount is one unit above the floor, every channel holds
\* exactly the floor, and the call has failed with that error.
C12_Witness ==
    /\ pc = "done"
    /\ err.kind = "noterminal"
    /\ amount = s.minPaymentAmount + 1
    /\ Len(channels) >= 2
    /\ \A k \in DOMAIN channels : channels[k].LocalBalance = s.minPaymentAmount
    /\ amount <= EligibleTotal

\* C13: when amount equals the sum of the local balances of the eligible
\* channels, FundPayment succeeds and pays every eligible channel exactly
\* its own LocalBalance.
C13_FullDrain ==
    (pc = "done" /\ amount = EligibleTotal) =>
        /\ Success
        /\ Len(ret.items) = Cardinality(EligibleIndexes)
        /\ \A k \in EligibleIndexes :
              \E a \in DOMAIN ret.items :
                  /\ ret.items[a].ChannelPoint = channels[k].ChannelPoint
                  /\ ret.items[a].Amount = channels[k].LocalBalance

\* C13 witness: a full drain of three or more eligible channels that do
\* not all hold the same balance.
C13_Witness ==
    /\ Success
    /\ amount = EligibleTotal
    /\ Len(ret.items) >= 3
    /\ \E a, b \in DOMAIN ret.items : ret.items[a].Amount # ret.items[b].Amount

\* Every eligible channel's exact share amount * LocalBalance / totalLocal
\* is a whole number of 10^-8 units and is at least the floor.
SharesExactAboveFloor ==
    \A k \in EligibleIndexes :
        /\ (amount * channels[k].LocalBalance) % EligibleTotal = 0
        /\ (amount * channels[k].LocalBalance) \div EligibleTotal >= s.minPaymentAmount

\* The returned plan pays every eligible channel its exact share and
\* nothing else.
PaysExactShares ==
    /\ Success
    /\ Len(ret.items) = Cardinality(EligibleIndexes)
    /\ \A k \in EligibleIndexes :
          \E a \in DOMAIN ret.items :
              /\ ret.items[a].ChannelPoint = channels[k].ChannelPoint
              /\ ret.items[a].Amount * EligibleTotal = amount * channels[k].LocalBalance

\* C14 (as stated): when every eligible channel's exact proportional share
\* is representable at the precision and is at least minPaymentAmount,
\* FundPayment returns a plan paying every eligible channel exactly its
\* share.
C14_ExactShares ==
    (pc = "done" /\ SharesExactAboveFloor) => PaysExactShares

\* C14 (amended): the same, for an amount that does not exceed the total
\* local balance of the eligible channels.
C14_ExactSharesFunded ==
    (pc = "done" /\ SharesExactAboveFloor /\ amount <= EligibleTotal) => PaysExactShares

\* C14 witness: three or more eligible channels of different balances are
\* paid their exact shares of an amount below the total.
C14_Witness ==
    /\ pc = "done"
    /\ SharesExactAboveFloor
    /\ PaysExactShares
    /\ amount < EligibleTotal
    /\ Len(ret.items) >= 3
    /\ \E a, b \in DOMAIN ret.items : ret.items[a].Amount # ret.items[b].Amount

\* Every channel of the sorted list was handled in proportional mode (the
\* last one took the rest) and no non-last share was below the floor.
AllProportionalUnclamped ==
    /\ EndedAtLastChannel
    /\ Len(ret.items) = Len(filteredChannels)
    /\ \A k \in 1..(Len(filteredChannels) - 1) :
          Share(filteredChannels[k]) >= s.minPaymentAmount

\* C15: in a run where every channel is handled in proportional mode
\* without clamping, each non-last channel is paid its rounded share and
\* the channel with the highest LocalBalance is paid amount minus the sum
\* of those rounded shares.
C15_RemainderOnHighest ==
    AllProportionalUnclamped =>
        LET n == Len(ret.items)
        IN  /\ \A k \in 1..(n - 1) :
                  /\ ret.items[k].ChannelPoint = filteredChannels[k].ChannelPoint
                  /\ ret.items[k].Amount = Share(filteredChannels[k])
            /\ ret.items[n].Amount = amount - SumAmounts(SubSeq(ret.items, 1, n - 1))
            /\ \A k \in EligibleIndexes :
                  channels[k].LocalBalance <= ChannelOf(ret.items[n]).LocalBalance

\* C15 witness: three channels of equal balance, where the last one is
\* paid more than its own rounded share.
C15_Witness ==
    /\ AllProportionalUnclamped
    /\ Len(ret.items) = 3
    /\ \A k \in 1..3 : filteredChannels[k].LocalBalance = filteredChannels[1].LocalBalance
    /\ ret.items[1].Amount = ret.items[2].Amount
    /\ ret.items[3].Amount = ret.items[1].Amount + 1
    /\ ret.items[3].Amount # Share(filteredChannels[3])

\* C16: among channels with equal LocalBalance the ascending sort is
\* stable: in the order in which FundPayment processes the channels, a
\* channel that comes earlier in the input (lower ID) precedes every later
\* channel of the same balance, so the plan is a function of the input.
C16_StableOrder ==
    pc = "loop" =>
        \A a, b \in DOMAIN filteredChannels :
            (a < b /\ filteredChannels[a].LocalBalance = filteredChannels[b].LocalBalance)
                => filteredChannels[a].ID < filteredChannels[b].ID

\* ------------------------------------------------- FundPayment as a function
\* Lines 60-108 run from position k of the sorted list with left to pay and
\* pays collected: the result FundPayment returns.
RECURSIVE FundPaymentLoop(_, _, _, _)
FundPaymentLoop(fc, k, left, pays) ==
    IF k > Len(fc) \/ left = 0
    THEN [ret |-> Plan(pays), err |-> NoError]
    ELSE IF left < s.doubleMinPaymentAmount
    THEN LET found == {j \in k..Len(fc) : ~(left > fc[j].LocalBalance)}
         IN  IF found = {}
             THEN [ret |-> NilPlan, err |-> [kind |-> "noterminal", args |-> <<left>>]]
             ELSE LET j == CHOOSE a \in found : \A b \in found : a <= b
                  IN  [ret |-> Plan(Append(pays, ChannelPayment(fc[j], left))),
                       err |-> NoError]
    ELSE IF k < Len(fc)
    THEN LET amt == Clamp(Round(Mul(amount, Div(fc[k].LocalBalance, SumLocal(fc))),
                                satoshiPrecision))
         IN  FundPaymentLoop(fc, k + 1, left - amt,
                             Append(pays, ChannelPayment(fc[k], amt)))
    ELSE IF left > fc[k].LocalBalance
    THEN [ret |-> NilPlan,
          err |-> [kind |-> "lastchannel", args |-> <<fc[k].LocalBalance, left>>]]
    ELSE FundPaymentLoop(fc, k + 1, left, Append(pays, ChannelPayment(fc[k], left)))

\* Lines 37-109: the results s.FundPayment(amount, cs) can return for a
\* channel list cs, one for each order sort.Slice can produce.
FundPayment(cs) ==
    LET fc == SelectSeq(cs, Eligible)
    IN  IF SumLocal(fc) < amount
        THEN {[ret |-> NilPlan,
               err |-> [kind |-> "insufficient", args |-> <<SumLocal(fc)>>]]}
        ELSE {FundPaymentLoop(sorted, 1, amount, <<>>) : sorted \in SortSlice(fc)}

\* The channel list cs with the channels at positions a and b exchanged.
Exchanged(cs, a, b) ==
    [k \in DOMAIN cs |-> IF k = a THEN cs[b] ELSE IF k = b THEN cs[a] ELSE cs[k]]

\* Reorderings of the channel list cs: every permutation of a list of up
\* to MaxPermuted channels; of a longer one, every exchange of two
\* neighbours (the exchanges every permutation is composed of).
Reordered(cs) ==
    IF Len(cs) <= MaxPermuted
    THEN {[k \in DOMAIN cs |-> cs[f[k]]] : f \in Permutations(DOMAIN cs)}
    ELSE {Exchanged(cs, a, a + 1) : a \in 1..(Len(cs) - 1)}

\* The amounts of a plan, each with the number of payments that carry it.
AmountCounts(ps) ==
    [a \in {ps[k].Amount : k \in DOMAIN ps} |->
        Cardinality({k \in DOMAIN ps : ps[k].Amount = a})]

PointAmounts(ps) == {<<ps[k].ChannelPoint, ps[k].Amount>> : k \in DOMAIN ps}

DistinctBalances(cs) ==
    \A a, b \in DOMAIN cs : a # b => cs[a].LocalBalance # cs[b].LocalBalance

\* Two results are the same outcome: the same failure kind, or plans with
\* the same amounts.
SameOutcome(x, y) ==
    /\ x.err.kind = y.err.kind
    /\ x.ret.nil = y.ret.nil
    /\ AmountCounts(x.ret.items) = AmountCounts(y.ret.items)

\* C17: the order of the input channel list is irrelevant: for a
\* reordering of the input (same amount, same configuration) FundPayment
\* returns the same failure kind or a plan with the same multiset of
\* amounts, and the same (channelPoint, amount) pairs when all local
\* balances are distinct.  The returned result is the one the function
\* gives for the list as passed.
C17_OrderIrrelevant ==
    pc = "done" =>
        /\ [ret |-> ret, err |-> err] \in FundPayment(channels)
        /\ \A p \in Reordered(channels) :
              \A o \in FundPayment(p) :
                  /\ SameOutcome(o, [ret |-> ret, err |-> err])
                  /\ DistinctBalances(channels) =>
                        PointAmounts(o.ret.items) = PointAmounts(ret.items)

\* C17 witness: a plan of three payments for three channels of distinct
\* balances passed in an order that is not ascending.
C17_Witness ==
    /\ Success
    /\ Len(channels) = 3
    /\ DistinctBalances(channels)
    /\ channels[1].LocalBalance > channels[3].LocalBalance
    /\ channels[3].LocalBalance > channels[2].LocalBalance
    /\ Len(ret.items) = 3

\* C18: FundPayment does not modify its inputs: no step of the call, on
\* the way to success or to failure, changes the caller's channel list
\* (its elements, their order, their fields ID, ChannelPoint, Node,
\* LocalBalance); the sort works on the separate filtered copy.
C18_InputsUnchanged ==
    [][channels' = channels]_vars

\* C18 witness: the call has returned after sorting a filtered copy into
\* an order different from the caller's, with a channel dropped by the
\* filter, and the caller's list is still in its own order.
C18_Witness ==
    /\ Success
    /\ ret.items # <<>>
    /\ Len(filteredChannels) >= 2
    /\ Len(filteredChannels) < Len(channels)
    /\ filteredChannels # SelectSeq(channels, Eligible)
    /\ channels = ChannelList([k \in DOMAIN channels |-> channels[k].LocalBalance])

\* a is whole * part / total rounded to a whole number of 10^-8 units: it
\* differs from the exact quotient by at most half a unit.
IsRoundedShare(a, whole, part, total) ==
    /\ 2 * (a * total - whole * part) <= total
    /\ 2 * (whole * part - a * total) <= total

Invoice(point) == [ChanPoint |-> point, PaymentRequest |-> <<"lnbc", point>>]

PlanPoints == {ret.items[k].ChannelPoint : k \in DOMAIN ret.items}

\* paymentSend at line 128: FundPayment has returned a plan of at least
\* one payment (lines 114-126) for an amount of at least the floor (lines
\* 86-88).
InitSend ==
    /\ \E m \in 1..MaxMinPayment : s = NewChannelsSelector(m, satoshiPrecision)
    /\ amount \in 0..MaxAmount
    /\ ~(amount < s.minPaymentAmount)
    /\ \E bals \in BalanceLists(SendChannels, WideBalances) : channels = ChannelList(bals)
    /\ Len(channels) # 0
    /\ pc = "done"
    /\ filteredChannels = <<>>
    /\ totalLocal = 0
    /\ channelPayments = <<>>
    /\ amountLeft = 0
    /\ i = 0
    /\ \E o \in FundPayment(channels) :
          /\ o.err = NoError
          /\ Len(o.ret.items) # 0
          /\ ret = o.ret
          /\ err = o.err
    /\ sendPc = "invoices"
    /\ invoicesByPoint = <<>>
    /\ sendIndex = 0
    /\ result = PaymentResult
    /\ sendLog = <<>>
    /\ response = NoResponse
    /\ limits = [MinPaymentAmount |-> s.minPaymentAmount]
    /\ apiCalls = <<"Limits", "ActiveChannels", "RemoteAddresses">>
    /\ returned = ""
    /\ OpenNotStarted
    /\ LndNotStarted

fundVars == <<s, amount, channels, pc, filteredChannels, totalLocal,
              channelPayments, amountLeft, i, err>>

\* Lines 128-143: the API answers with invoices for some of the channel
\* points asked for.
IssueInvoices ==
    /\ sendPc = "invoices"
    /\ \E points \in SUBSET PlanPoints :
          invoicesByPoint' = [p \in points |-> Invoice(p)]
    /\ result' = PaymentResult
    /\ sendIndex' = 1
    /\ sendPc' = "send"
    /\ apiCalls' = Append(apiCalls, "IssueInvoices")
    /\ UNCHANGED <<openVars, lndVars, fundVars, limits, returned, ret, sendLog, response>>

\* Lines 133-136: the request for invoices fails.
IssueInvoicesError ==
    /\ sendPc = "invoices"
    /\ sendPc' = "return_err"
    /\ returned' = "Error on getting invoices to pay"
    /\ apiCalls' = Append(apiCalls, "IssueInvoices")
    /\ UNCHANGED <<openVars, lndVars, fundVars, limits, ret, invoicesByPoint, sendIndex, result, sendLog, response>>

InSendLoop ==
    /\ sendPc = "send"
    /\ sendIndex <= Len(ret.items)

\* cp.Error = ...; result.Errors = append(result.Errors, cp): cp points
\* into the plan.
AppendError(message) ==
    /\ ret' = [ret EXCEPT !.items[sendIndex].Error = message]
    /\ result' = [result EXCEPT !.Errors = Append(@, ret'.items[sendIndex])]

\* The call lncli.SendPayment(inv.PaymentRequest, cp.Amount, cp.ID).
SendPayment(failed) ==
    /\ apiCalls' = Append(apiCalls, "SendPayment")
    /\ sendLog' = Append(sendLog,
                      [PaymentRequest |-> invoicesByPoint[ret.items[sendIndex].ChannelPoint].PaymentRequest,
                       Amount |-> ret.items[sendIndex].Amount,
                       ID |-> ret.items[sendIndex].ID,
                       failed |-> failed])

\* Variant: a payment without invoice is passed over without a record.
InvoiceNotFoundUnreported ==
    /\ InSendLoop
    /\ ret.items[sendIndex].ChannelPoint \notin DOMAIN invoicesByPoint
    /\ sendIndex' = sendIndex + 1
    /\ UNCHANGED <<openVars, lndVars, fundVars, limits, returned, apiCalls, ret, result, sendPc,
                   invoicesByPoint, sendLog, response>>

\* Lines 145-150
InvoiceNotFound ==
    /\ InSendLoop
    /\ ret.items[sendIndex].ChannelPoint \notin DOMAIN invoicesByPoint
    /\ AppendError("Invoice not found in API response")
    /\ sendIndex' = sendIndex + 1
    /\ UNCHANGED <<openVars, lndVars, fundVars, limits, returned, apiCalls, sendPc, invoicesByPoint, sendLog, response>>

\* Variant: the first failed payment ends the loop.
SendPaymentErrorBreak ==
    /\ InSendLoop
    /\ ret.items[sendIndex].ChannelPoint \in DOMAIN invoicesByPoint
    /\ SendPayment(TRUE)
    /\ AppendError("Error on sending payment")
    /\ sendIndex' = Len(ret.items) + 1
    /\ UNCHANGED <<openVars, lndVars, fundVars, limits, returned, sendPc, invoicesByPoint, response>>

\* Lines 152-157: SendPayment returns an error.
SendPaymentError ==
    /\ InSendLoop
    /\ ret.items[sendIndex].ChannelPoint \in DOMAIN invoicesByPoint
    /\ SendPayment(TRUE)
    /\ AppendError("Error on sending payment")
    /\ sendIndex' = sendIndex + 1
    /\ UNCHANGED <<openVars, lndVars, fundVars, limits, returned, sendPc, invoicesByPoint, response>>

\* Lines 152-153, 157-159: SendPayment returns nil.
SendPaymentDone ==
    /\ InSendLoop
    /\ ret.items[sendIndex].ChannelPoint \in DOMAIN invoicesByPoint
    /\ SendPayment(FALSE)
    /\ result' = [result EXCEPT !.Successful = Append(@, ret.items[sendIndex])]
    /\ sendIndex' = sendIndex + 1
    /\ UNCHANGED <<openVars, lndVars, fundVars, limits, returned, ret, sendPc, invoicesByPoint, response>>

\* Lines 162-165
ExitWithErrors ==
    /\ sendPc = "send"
    /\ sendIndex > Len(ret.items)
    /\ Len(result.Errors) > 0
    /\ response' = [kind |-> "ResponseError", body |-> result]
    /\ sendPc' = "exit_1"
    /\ UNCHANGED <<openVars, lndVars, fundVars, limits, returned, apiCalls, ret, invoicesByPoint, sendIndex, result, sendLog>>

\* Lines 162, 166-167
RespondResult ==
    /\ sendPc = "send"
    /\ sendIndex > Len(ret.items)
    /\ ~(Len(result.Errors) > 0)
    /\ response' = [kind |-> "ResponseJSON", body |-> result]
    /\ sendPc' = "return_nil"
    /\ UNCHANGED <<openVars, lndVars, fundVars, limits, returned, apiCalls, ret, invoicesByPoint, sendIndex, result, sendLog>>

NextSend ==
    \/ IssueInvoices
    \/ IssueInvoicesError
    \/ InvoiceNotFound
    \/ SendPaymentError
    \/ SendPaymentDone
    \/ ExitWithErrors
    \/ RespondResult

SpecSend == InitSend /\ [][NextSend]_vars

\* The positions of list ps that hold the payment of channel point p.
PositionsOf(ps, p) == {k \in DOMAIN ps : ps[k].ChannelPoint = p}

\* The outcomes of the SendPayment calls made for the planned payment cp.
SendOutcomes(cp) ==
    {k \in DOMAIN sendLog :
        sendLog[k].ID = cp.ID /\ sendLog[k].Amount = cp.Amount}

AfterSendLoop == sendPc \in {"exit_1", "return_nil"}

\* After the loop every planned payment is in exactly one of
\* result.Successful and result.Errors, in Successful exactly when its
\* SendPayment returned no error; a payment with an invoice was attempted
\* once whatever happened to the others.
EachPaymentSettled ==
    AfterSendLoop =>
        /\ Len(result.Successful) + Len(result.Errors) = Len(ret.items)
        /\ \A k \in DOMAIN ret.items :
              LET cp == ret.items[k]
              IN  /\ Cardinality(PositionsOf(result.Successful, cp.ChannelPoint))
                       + Cardinality(PositionsOf(result.Errors, cp.ChannelPoint)) = 1
                  /\ PositionsOf(result.Successful, cp.ChannelPoint) # {}
                        <=> \E a \in SendOutcomes(cp) : ~sendLog[a].failed
                  /\ cp.ChannelPoint \in DOMAIN invoicesByPoint
                        => Cardinality(SendOutcomes(cp)) = 1

\* A step of the loop leaves the payments already recorded where they are.
RecordedStay ==
    /\ Len(result.Successful) <= Len(result'.Successful)
    /\ SubSeq(result'.Successful, 1, Len(result.Successful)) = result.Successful
    /\ Len(result.Errors) <= Len(result'.Errors)
    /\ SubSeq(result'.Errors, 1, Len(result.Errors)) = result.Errors

\* C19: in paymentSend the payments of a plan are executed independently:
\* a SendPayment failure does not prevent the attempt for a later planned
\* payment and does not undo an earlier success, and after the loop every
\* planned payment is in exactly one of result.Successful and
\* result.Errors, in Successful exactly when its SendPayment returned no
\* error.
C19_IndependentPayments ==
    [][/\ sendPc = "send" => RecordedStay
       /\ EachPaymentSettled']_vars

\* C19 witness: of three planned payments the first succeeded, the second
\* failed and the third succeeded after that failure.
C19_Witness ==
    /\ AfterSendLoop
    /\ Len(ret.items) = 3
    /\ Len(sendLog) = 3
    /\ ~sendLog[1].failed /\ sendLog[2].failed /\ ~sendLog[3].failed
    /\ Len(result.Successful) = 2
    /\ Len(result.Errors) = 1
    /\ result.Errors[1].ChannelPoint = ret.items[2].ChannelPoint

\* C21: a step that pays a non-last channel in proportional mode pays the
\* share rounded to the number of fractional digits the selector was
\* constructed with (s.roundPrecision), clamped up to the floor.
C21_RoundedToSelectorPrecision ==
    [][(pc = "loop" /\ pc' = "loop" /\ i < Len(filteredChannels) /\ i' = i + 1) =>
         channelPayments'[Len(channelPayments')].Amount =
             Clamp(Round(Mul(amount, Div(filteredChannels[i].LocalBalance, totalLocal)),
                         s.roundPrecision))]_vars

\* The step ends the run in terminal mode: with the no-terminal failure or
\* with one more payment than had been accumulated.
TerminalStep ==
    /\ pc = "loop"
    /\ pc' = "done"
    /\ \/ err'.kind = "noterminal"
       \/ err' = NoError /\ Len(ret'.items) = Len(channelPayments) + 1

\* C22: an iteration is handled in terminal mode exactly when it starts
\* with 0 < amountLeft < 2 x minPaymentAmount; the scan then starts at the
\* current channel and gives the whole amountLeft to the first channel in
\* ascending order that holds it, a channel without payment so far, and
\* the run stops.
C22_TerminalExactly ==
    [][(pc = "loop" /\ i <= Len(filteredChannels)) =>
         /\ TerminalStep <=> (0 < amountLeft /\ amountLeft < 2 * s.minPaymentAmount)
         /\ (TerminalStep /\ err' = NoError) =>
               LET p == ret'.items[Len(ret'.items)]
               IN  /\ p.Amount = amountLeft
                   /\ \A k \in DOMAIN channelPayments :
                         channelPayments[k].ChannelPoint # p.ChannelPoint
                   /\ \E j \in i..Len(filteredChannels) :
                         /\ filteredChannels[j].ChannelPoint = p.ChannelPoint
                         /\ filteredChannels[j].LocalBalance >= amountLeft
                         /\ \A k \in i..(j - 1) :
                               filteredChannels[k].LocalBalance < amountLeft]_vars

\* C23: during a FundPayment run with amount > 0, amountLeft never drops
\* below zero: the payments assigned to non-last channels, clamped shares
\* included, never add up to more than the requested amount.
C23_AmountLeftNonNegative ==
    amount > 0 => /\ amountLeft >= 0
                  /\ pc = "loop" => SumAmounts(channelPayments) <= amount

\* C24: for every input with 0 < amount <= total eligible local balance
\* the rest that reaches the last channel in proportional mode is at most
\* that channel's LocalBalance: the last-channel failure is never returned.
C24_LastChannelCovers ==
    (pc = "done" /\ 0 < amount /\ amount <= EligibleTotal) => err.kind # "lastchannel"

\* ------------------------------------------------- paymentSend, lines 81-126
\* channelsSelector before line 113.
NoSelector == [minPaymentAmount |-> 0, doubleMinPaymentAmount |-> 0, roundPrecision |-> 0]

\* paymentSend at line 81: account and amount are parsed, the clients are
\* made, nothing has been asked of the API or of the lnd node.
InitPaymentSend ==
    /\ amount \in 0..MaxAmount
    /\ s = NoSelector
    /\ channels = <<>>
    /\ pc = "filter"
    /\ filteredChannels = <<>>
    /\ totalLocal = 0
    /\ channelPayments = <<>>
    /\ amountLeft = 0
    /\ i = 0
    /\ ret = NilPlan
    /\ err = NoError
    /\ sendPc = "limits"
    /\ invoicesByPoint = <<>>
    /\ sendIndex = 0
    /\ result = PaymentResult
    /\ sendLog = <<>>
    /\ response = NoResponse
    /\ limits = NoLimits
    /\ apiCalls = <<>>
    /\ returned = ""
    /\ OpenNotStarted
    /\ LndNotStarted

selectorVars == <<pc, filteredChannels, totalLocal, channelPayments, amountLeft, i>>

sendLoopVars == <<invoicesByPoint, sendIndex, result, sendLog>>

\* return fmt.Errorf(...)
ReturnErr(message) ==
    /\ sendPc' = "return_err"
    /\ returned' = message

\* Variant: the amount is not compared with the limit.
GetLimitsUnchecked ==
    /\ sendPc = "limits"
    /\ \E m \in 0..MaxMinPayment : limits' = [MinPaymentAmount |-> m]
    /\ apiCalls' = Append(apiCalls, "Limits")
    /\ sendPc' = "channels"
    /\ UNCHANGED <<openVars, lndVars, s, amount, channels, selectorVars, ret, err, sendLoopVars, response, returned>>

\* Lines 82-88: the limits are fetched and the amount is not below the
\* minimum payment amount.
GetLimits ==
    /\ sendPc = "limits"
    /\ \E m \in 0..MaxMinPayment : limits' = [MinPaymentAmount |-> m]
    /\ ~(amount < limits'.MinPaymentAmount)
    /\ apiCalls' = Append(apiCalls, "Limits")
    /\ sendPc' = "channels"
    /\ UNCHANGED <<openVars, lndVars, s, amount, channels, selectorVars, ret, err, sendLoopVars, response, returned>>

\* Lines 82-85
LimitsError ==
    /\ sendPc = "limits"
    /\ apiCalls' = Append(apiCalls, "Limits")
    /\ ReturnErr("Error on getting Limits")
    /\ UNCHANGED <<openVars, lndVars, s, amount, channels, selectorVars, ret, err, sendLoopVars, response,
                   limits>>

\* Lines 82-88: the amount is below the minimum payment amount.
AmountBelowMin ==
    /\ sendPc = "limits"
    /\ \E m \in 0..MaxMinPayment : limits' = [MinPaymentAmount |-> m]
    /\ amount < limits'.MinPaymentAmount
    /\ apiCalls' = Append(apiCalls, "Limits")
    /\ ReturnErr("Amount should be greater or equal to min payment amount")
    /\ UNCHANGED <<openVars, lndVars, s, amount, channels, selectorVars, ret, err, sendLoopVars, response>>

\* Lines 98-106: the active channels whose node occurs in a remote
\* address; known holds the nodes that occur in one.
KnownChannels(allChannels, known) ==
    SelectSeq(allChannels, LAMBDA c : c.Node \in known)

\* Lines 91-110: the channels are fetched and filtered, some are left.
GetChannels ==
    /\ sendPc = "channels"
    /\ \E bals \in BalanceLists(SendChannels, WideBalances), known \in SUBSET (1..NumNodes) :
          /\ Len(KnownChannels(ChannelList(bals), known)) # 0
          /\ channels' = KnownChannels(ChannelList(bals), known)
    /\ apiCalls' = apiCalls \o <<"ActiveChannels", "RemoteAddresses">>
    /\ sendPc' = "selector"
    /\ UNCHANGED <<openVars, lndVars, s, amount, selectorVars, ret, err, sendLoopVars, response, returned, limits>>

\* Lines 91-94
ActiveChannelsError ==
    /\ sendPc = "channels"
    /\ apiCalls' = Append(apiCalls, "ActiveChannels")
    /\ ReturnErr("Error on getting active channels")
    /\ UNCHANGED <<openVars, lndVars, s, amount, channels, selectorVars, ret, err, sendLoopVars, response,
                   limits>>

\* Lines 91-97
RemoteAddressesError ==
    /\ sendPc = "channels"
    /\ apiCalls' = apiCalls \o <<"ActiveChannels", "RemoteAddresses">>
    /\ ReturnErr("Error on getting RemoteAddresses")
    /\ UNCHANGED <<openVars, lndVars, s, amount, channels, selectorVars, ret, err, sendLoopVars, response,
                   limits>>

\* Lines 91-110: no active channel belongs to a known remote node.
NoKnownChannels ==
    /\ sendPc = "channels"
    /\ \E bals \in BalanceLists(SendChannels, WideBalances), known \in SUBSET (1..NumNodes) :
          Len(KnownChannels(ChannelList(bals), known)) = 0
    /\ apiCalls' = apiCalls \o <<"ActiveChannels", "RemoteAddresses">>
    /\ ReturnErr("Opened channels with known remote nodes not found")
    /\ UNCHANGED <<openVars, lndVars, s, amount, channels, selectorVars, ret, err, sendLoopVars, response,
                   limits>>

\* Line 113
NewSelector ==
    /\ sendPc = "selector"
    /\ s' = NewChannelsSelector(limits.MinPaymentAmount, satoshiPrecision)
    /\ sendPc' = "fund_call"
    /\ UNCHANGED <<openVars, lndVars, amount, channels, selectorVars, ret, err, sendLoopVars, response, returned,
                   limits, apiCalls>>

\* Line 114: channelsSelector.FundPayment(amount, channels) returns o.
FundPaymentReturns(o) ==
    /\ sendPc = "fund_call"
    /\ o \in FundPayment(channels)
    /\ pc' = "done"
    /\ ret' = o.ret
    /\ err' = o.err
    /\ UNCHANGED <<openVars, lndVars, s, amount, channels, filteredChannels, totalLocal, channelPayments,
                   amountLeft, i, sendLoopVars, limits, apiCalls>>

\* FundChannelsError of lines 116-120.
FundChannelsError(e) ==
    [ErrorMessage |-> e, MinPaymentAmount |-> limits.MinPaymentAmount,
     FundingChannels |-> channels]

\* Variant: the failure is answered but paymentSend goes on.
FundPaymentFailedGoOn ==
    \E o \in FundPayment(channels) :
        /\ FundPaymentReturns(o)
        /\ o.err # NoError
        /\ response' = [kind |-> "ResponseError", body |-> FundChannelsError(o.err)]
        /\ sendPc' = "invoices"
        /\ UNCHANGED returned

\* Lines 114-123: FundPayment fails.
FundPaymentFailed ==
    \E o \in FundPayment(channels) :
        /\ FundPaymentReturns(o)
        /\ o.err # NoError
        /\ response' = [kind |-> "ResponseError", body |-> FundChannelsError(o.err)]
        /\ sendPc' = "exit_1"
        /\ UNCHANGED returned

\* Lines 114-126: FundPayment returns no payment.
FundPaymentEmpty ==
    \E o \in FundPayment(channels) :
        /\ FundPaymentReturns(o)
        /\ o.err = NoError
        /\ Len(o.ret.items) = 0
        /\ ReturnErr("No channels for payment were funded")
        /\ UNCHANGED response

\* Lines 114-127: FundPayment returns a plan.
FundPaymentPlanned ==
    \E o \in FundPayment(channels) :
        /\ FundPaymentReturns(o)
        /\ o.err = NoError
        /\ ~(Len(o.ret.items) = 0)
        /\ sendPc' = "invoices"
        /\ UNCHANGED <<response, returned>>

NextPaymentSend ==
    \/ GetLimits
    \/ LimitsError
    \/ AmountBelowMin
    \/ GetChannels
    \/ ActiveChannelsError
    \/ RemoteAddressesError
    \/ NoKnownChannels
    \/ NewSelector
    \/ FundPaymentFailed
    \/ FundPaymentEmpty
    \/ FundPaymentPlanned
    \/ IssueInvoices
    \/ IssueInvoicesError
    \/ InvoiceNotFound
    \/ SendPaymentError
    \/ SendPaymentDone
    \/ ExitWithErrors
    \/ RespondResult

SpecPaymentSend == InitPaymentSend /\ [][NextPaymentSend]_vars

\* FundPayment has been invoked by paymentSend.
FundPaymentInvoked == pc = "done"

\* C25: paymentSend never invokes FundPayment with amount below
\* limits.MinPaymentAmount: with such an amount it returns an error after
\* the call for the limits, before the active channels are fetched, before
\* an invoice is requested and before a payment is sent.
C25_BelowMinRejected ==
    /\ FundPaymentInvoked => ~(amount < limits.MinPaymentAmount)
    /\ (sendPc # "limits" /\ amount < limits.MinPaymentAmount) =>
          /\ sendPc = "return_err"
          /\ returned # ""
          /\ apiCalls = <<"Limits">>
          /\ sendLog = <<>>
          /\ ~FundPaymentInvoked

\* C25 witness: a positive amount below the minimum has been rejected.
C25_Witness ==
    /\ sendPc = "return_err"
    /\ amount > 0
    /\ amount < limits.MinPaymentAmount
    /\ apiCalls = <<"Limits">>

InvoiceOrPaymentRequested ==
    \/ \E k \in DOMAIN apiCalls : apiCalls[k] \in {"IssueInvoices", "SendPayment"}
    \/ sendLog # <<>>

\* C26: if FundPayment returns an error or an empty plan, or if no active
\* channel belongs to a known remote node, paymentSend requests no invoice
\* and sends no payment: IssueInvoices and SendPayment are only called
\* after a successful, non-empty allocation.
C26_NothingSentWithoutPlan ==
    /\ InvoiceOrPaymentRequested =>
          /\ FundPaymentInvoked
          /\ err = NoError
          /\ Len(ret.items) # 0
          /\ Len(channels) # 0
    /\ (FundPaymentInvoked /\ (err # NoError \/ Len(ret.items) = 0)) =>
          /\ ~InvoiceOrPaymentRequested
          /\ sendPc \in {"exit_1", "return_err"}
    /\ (sendPc \notin {"limits", "channels"} /\ Len(channels) = 0) =>
          /\ ~InvoiceOrPaymentRequested
          /\ sendPc = "return_err"

\* C26 witness: FundPayment failed for channels of known nodes and
\* paymentSend exited after the three calls made before it.
C26_Witness ==
    /\ sendPc = "exit_1"
    /\ FundPaymentInvoked
    /\ err.kind \in {"noterminal", "lastchannel", "insufficient"}
    /\ Len(channels) >= 2
    /\ apiCalls = <<"Limits", "ActiveChannels", "RemoteAddresses">>
    /\ response.kind = "ResponseError"

\* The planned payments whose channel point has no invoice.
WithoutInvoice ==
    {k \in DOMAIN ret.items : ret.items[k].ChannelPoint \notin DOMAIN invoicesByPoint}

SendLoopOver == sendPc \in {"exit_1", "return_nil"} /\ sendIndex > 0

\* C27: a planned payment whose channel point has no invoice in the
\* IssueInvoices response is never passed to SendPayment and is reported
\* in result.Errors, while the other planned payments are still passed to
\* SendPayment; once the loop is over paymentSend ends with failure status
\* exactly when result.Errors is not empty.
C27_MissingInvoiceReported ==
    /\ \A k \in WithoutInvoice : SendOutcomes(ret.items[k]) = {}
    /\ SendLoopOver =>
          /\ \A k \in WithoutInvoice :
                /\ PositionsOf(result.Errors, ret.items[k].ChannelPoint) # {}
                /\ PositionsOf(result.Successful, ret.items[k].ChannelPoint) = {}
          /\ \A k \in DOMAIN ret.items \ WithoutInvoice :
                Cardinality(SendOutcomes(ret.items[k])) = 1
          /\ sendPc = "exit_1" <=> Len(result.Errors) > 0
          /\ sendPc = "return_nil" <=> response.kind = "ResponseJSON"

\* C27 witness: of three planned payments the second has no invoice; the
\* first and the third were sent and succeeded, and paymentSend failed.
C27_Witness ==
    /\ SendLoopOver
    /\ Len(ret.items) = 3
    /\ WithoutInvoice = {2}
    /\ Len(sendLog) = 2
    /\ ~sendLog[1].failed /\ ~sendLog[2].failed
    /\ Len(result.Successful) = 2
    /\ Len(result.Errors) = 1
    /\ result.Errors[1].ChannelPoint = ret.items[2].ChannelPoint
    /\ sendPc = "exit_1"

\* ------------------------------------------- channelOpen, part_000 146-188
paymentVars == <<fundVars, ret, sendVars>>

\* No payment command is running.
PaymentNotStarted ==
    /\ s = NoSelector
    /\ amount = 0
    /\ channels = <<>>
    /\ pc = "filter"
    /\ filteredChannels = <<>>
    /\ totalLocal = 0
    /\ channelPayments = <<>>
    /\ amountLeft = 0
    /\ i = 0
    /\ ret = NilPlan
    /\ err = NoError
    /\ sendPc = "idle"
    /\ invoicesByPoint = <<>>
    /\ sendIndex = 0
    /\ result = PaymentResult
    /\ sendLog = <<>>
    /\ response = NoResponse
    /\ limits = NoLimits
    /\ apiCalls = <<>>
    /\ returned = ""

\* channelOpen at line 146, with capacity > 0 and at least one address.
InitChannelOpen ==
    /\ PaymentNotStarted
    /\ LndNotStarted
    /\ capacity \in 1..MaxCapacity
    /\ \E n \in 1..MaxAddrs :
          /\ addrs = [k \in 1..n |-> k]
          /\ streams = [k \in 1..n |-> [state |-> "none", result |-> <<>>]]
          /\ delivered = [k \in 1..n |-> 0]
    /\ channelFunds = <<>>
    /\ fundsTotal = 0
    /\ openPc = "funds"
    /\ openIndex = 0
    /\ wg = 0
    /\ consumer = "not started"
    /\ received = <<>>
    /\ respChanClosed = FALSE
    /\ resp = [PendingChannels |-> <<>>, Errors |-> <<>>]
    /\ output = <<>>

\* The number a digit string writes, most significant digit first.
RECURSIVE DigitsValue(_)
DigitsValue(ds) ==
    IF ds = <<>> THEN 0 ELSE DigitsValue(SubSeq(ds, 1, Len(ds) - 1)) * 10 + ds[Len(ds)]

\* Variant: the quotient is rounded to the precision, not truncated.
FundsPerChannelRounded(c, n) ==
    LET q == DivRound(c, n * Pow10(CapacityScale), channelFundingPrecision)
    IN  (q.int * Pow10(channelFundingPrecision) + DigitsValue(q.frac))
            * Pow10(CapacityScale - channelFundingPrecision)

\* Line 149: capacity.QuoRem(n, channelFundingPrecision), the quotient, in
\* 10^-CapacityScale units.
FundsPerChannel(c, n) ==
    LET q == QuoRem(c, n * Pow10(CapacityScale), channelFundingPrecision)
    IN  (q.int * Pow10(channelFundingPrecision) + DigitsValue(q.frac))
            * Pow10(CapacityScale - channelFundingPrecision)

\* Lines 147-156
DistributeFunds ==
    /\ openPc = "funds"
    /\ LET n               == Len(addrs)
           fundsPerChannel == FundsPerChannel(capacity, n)
           total           == n * fundsPerChannel
       IN  /\ fundsTotal' = total
           /\ channelFunds' =
                 [k \in 1..n |->
                     IF k = n /\ total < capacity
                     THEN fundsPerChannel + (capacity - total)
                     ELSE fundsPerChannel]
    /\ openPc' = "open"
    /\ openIndex' = 1
    /\ UNCHANGED <<paymentVars, lndVars, capacity, addrs, wg, streams, consumer, received,
                   respChanClosed, resp, delivered, output>>

\* Lines 165-171: lncli.OpenChannel returns an error.
OpenChannelError ==
    /\ openPc = "open"
    /\ openIndex <= Len(addrs)
    /\ resp' = [resp EXCEPT !.Errors = Append(@, [Node |-> addrs[openIndex]])]
    /\ openIndex' = openIndex + 1
    /\ UNCHANGED <<paymentVars, lndVars, capacity, addrs, channelFunds, fundsTotal, openPc,
                   wg, streams, consumer, received, respChanClosed, delivered, output>>

\* Lines 165-166, 172 and lnd.go 305-325, 351: lncli.OpenChannel starts
\* its goroutine and returns nil.
OpenChannelStarted ==
    /\ openPc = "open"
    /\ openIndex <= Len(addrs)
    /\ streams' = [streams EXCEPT ![openIndex] = [state |-> "recv", result |-> <<>>]]
    /\ wg' = wg + 1
    /\ openIndex' = openIndex + 1
    /\ UNCHANGED <<paymentVars, lndVars, capacity, addrs, channelFunds, fundsTotal, openPc,
                   consumer, received, respChanClosed, resp, delivered, output>>

\* Lines 174-184: the go statement after the loop.
StartConsumer ==
    /\ openPc = "open"
    /\ openIndex > Len(addrs)
    /\ consumer' = "range"
    /\ openPc' = "wait"
    /\ UNCHANGED <<paymentVars, lndVars, capacity, addrs, channelFunds, fundsTotal,
                   openIndex, wg, streams, received, respChanClosed, resp, delivered, output>>

\* clients.OpenChannelResult
OpenChannelResult(a, failed) ==
    IF failed
    THEN [Node |-> a, Error |-> "error", Status |-> "", Capacity |-> 0]
    ELSE [Node |-> a, Error |-> "nil", Status |-> "pending_open",
          Capacity |-> channelFunds[a]]

\* lnd.go 326-349: the stream of address a yields an error or a pending
\* update and the goroutine goes to send its result.
StreamYields(a) ==
    /\ streams[a].state = "recv"
    /\ \E failed \in BOOLEAN :
          streams' = [streams EXCEPT ![a] = [state  |-> "send",
                                             result |-> OpenChannelResult(a, failed)]]
    /\ UNCHANGED <<paymentVars, lndVars, capacity, addrs, channelFunds, fundsTotal, openPc,
                   openIndex, wg, consumer, received, respChanClosed, resp, delivered,
                   output>>

\* out <- result met by r := range respChan (the channel is unbuffered);
\* the sending goroutine returns.
Deliver(a) ==
    /\ streams[a].state = "send"
    /\ consumer = "range"
    /\ ~respChanClosed
    /\ received' = streams[a].result
    /\ consumer' = "record"
    /\ streams' = [streams EXCEPT ![a].state = "returned"]
    /\ delivered' = [delivered EXCEPT ![a] = @ + 1]
    /\ UNCHANGED <<paymentVars, lndVars, capacity, addrs, channelFunds, fundsTotal, openPc,
                   openIndex, wg, respChanClosed, resp, output>>

\* Lines 176-181
Record ==
    /\ consumer = "record"
    /\ resp' = IF received.Error # "nil"
               THEN [resp EXCEPT !.Errors = Append(@, [Node |-> received.Node])]
               ELSE [resp EXCEPT !.PendingChannels = Append(@, received)]
    /\ consumer' = "done"
    /\ UNCHANGED <<paymentVars, lndVars, capacity, addrs, channelFunds, fundsTotal, openPc,
                   openIndex, wg, streams, received, respChanClosed, delivered, output>>

\* Line 182: wg.Done()
Done ==
    /\ consumer = "done"
    /\ wg' = wg - 1
    /\ consumer' = "range"
    /\ UNCHANGED <<paymentVars, lndVars, capacity, addrs, channelFunds, fundsTotal, openPc,
                   openIndex, streams, received, respChanClosed, resp, delivered, output>>

\* Variant: wg.Wait() returns while the counter is not zero.
WaitNotWaiting ==
    /\ openPc = "wait"
    /\ openPc' = "respond"
    /\ UNCHANGED <<paymentVars, lndVars, capacity, addrs, channelFunds, fundsTotal,
                   openIndex, wg, streams, consumer, received, respChanClosed, resp,
                   delivered, output>>

\* Line 185: wg.Wait() returns.
Wait ==
    /\ openPc = "wait"
    /\ wg = 0
    /\ openPc' = "respond"
    /\ UNCHANGED <<paymentVars, lndVars, capacity, addrs, channelFunds, fundsTotal,
                   openIndex, wg, streams, consumer, received, respChanClosed, resp,
                   delivered, output>>

\* Lines 186-187 and the deferred close(respChan) of line 163.
RespondAndClose ==
    /\ openPc = "respond"
    /\ output' = <<resp>>
    /\ respChanClosed' = TRUE
    /\ openPc' = "returned"
    /\ UNCHANGED <<paymentVars, lndVars, capacity, addrs, channelFunds, fundsTotal,
                   openIndex, wg, streams, consumer, received, resp, delivered>>

\* Line 175: the range loop ends on the closed channel.
ConsumerExits ==
    /\ consumer = "range"
    /\ respChanClosed
    /\ consumer' = "exited"
    /\ UNCHANGED <<paymentVars, lndVars, capacity, addrs, channelFunds, fundsTotal, openPc,
                   openIndex, wg, streams, received, respChanClosed, resp, delivered,
                   output>>

NextChannelOpen ==
    \/ DistributeFunds
    \/ OpenChannelError
    \/ OpenChannelStarted
    \/ StartConsumer
    \/ \E a \in DOMAIN streams : StreamYields(a)
    \/ \E a \in DOMAIN streams : Deliver(a)
    \/ Record
    \/ Done
    \/ Wait
    \/ RespondAndClose
    \/ ConsumerExits

SpecChannelOpen == InitChannelOpen /\ [][NextChannelOpen]_vars

RECURSIVE SumFunds(_)
SumFunds(fs) == IF fs = <<>> THEN 0 ELSE Head(fs) + SumFunds(Tail(fs))

\* One unit of the funding precision, in 10^-CapacityScale units.
FundingUnit == Pow10(CapacityScale - channelFundingPrecision)

\* f is c / n truncated to channelFundingPrecision fractional digits.
IsTruncatedQuotient(f, c, n) ==
    /\ f % FundingUnit = 0
    /\ f * n <= c
    /\ c < (f + FundingUnit) * n

\* C28: in the multi-node channelOpen, for capacity > 0 and n >= 1 remote
\* addresses, the funds of the channels add up to capacity exactly: every
\* channel but the last gets capacity / n truncated to 3 fractional digits
\* and the last gets that value plus the whole remainder.
C28_FundsSumToCapacity ==
    (openPc \notin {"idle", "funds"}) =>
        LET n == Len(addrs)
        IN  /\ Len(channelFunds) = n
            /\ SumFunds(channelFunds) = capacity
            /\ \E f \in 0..capacity :
                  /\ IsTruncatedQuotient(f, capacity, n)
                  /\ \A k \in 1..(n - 1) : channelFunds[k] = f
                  /\ channelFunds[n] = f + (capacity - n * f)

\* C28 witness: three channels, the first two funded with the same
\* positive amount and the last with more.
C28_Witness ==
    /\ openPc = "open"
    /\ Len(channelFunds) = 3
    /\ channelFunds[1] > 0
    /\ channelFunds[2] = channelFunds[1]
    /\ channelFunds[3] > channelFunds[1]
    /\ capacity % FundingUnit # 0

\* The addresses whose OpenChannel call returned nil.
Opened == {a \in DOMAIN streams : streams[a].state # "none"}

\* The number of entries list rs holds for address a.
EntriesFor(rs, a) == Cardinality({k \in DOMAIN rs : rs[k].Node = a})

WaitReturned == openPc \in {"respond", "returned"}

\* C29: in the multi-node channelOpen each address whose OpenChannel call
\* returned nil delivers exactly one OpenChannelResult on respChan (never
\* more than one, and one by the time wg.Wait() returns), that result is
\* recorded in exactly one of PendingChannels and Errors before wg.Wait()
\* returns, and no goroutine is left to send on respChan once it is closed.
C29_OneResultEach ==
    /\ \A a \in DOMAIN delivered :
          /\ delivered[a] <= 1
          /\ a \notin Opened => delivered[a] = 0
    /\ WaitReturned =>
          \A a \in DOMAIN addrs :
              IF a \in Opened
              THEN /\ delivered[a] = 1
                   /\ EntriesFor(resp.PendingChannels, a) + EntriesFor(resp.Errors, a) = 1
                   /\ EntriesFor(resp.PendingChannels, a) = 1
                         <=> streams[a].result.Error = "nil"
              ELSE /\ EntriesFor(resp.PendingChannels, a) = 0
                   /\ EntriesFor(resp.Errors, a) = 1
    /\ respChanClosed =>
          \A a \in DOMAIN streams : streams[a].state \in {"none", "returned"}

\* C29 witness: channelOpen has returned; of three addresses one could not
\* be opened, one delivered a pending channel and one an error.
C29_Witness ==
    /\ openPc = "returned"
    /\ respChanClosed
    /\ Len(addrs) = 3
    /\ Cardinality(Opened) = 2
    /\ Len(resp.PendingChannels) = 1
    /\ Len(resp.Errors) = 2
    /\ \A a \in Opened : delivered[a] = 1

\* ------------------------------------------------ NewLndClient, lnd.go 139-205
otherVars == <<paymentVars, openVars>>

\* The errors a GetInfo probe can come back with.
ProbeErrors == {"Unimplemented", "Unavailable"}

Call(name, e) == [call |-> name, err |-> e]

\* NewLndClient at line 148 with unlocked set: the first connection is
\* dialled (line 139).
InitLndClient ==
    /\ PaymentNotStarted
    /\ OpenNotStarted
    /\ lndPc = "check"
    /\ attempt = 0
    /\ conn = 1
    /\ lndCalls = <<>>
    /\ lndErr = "nil"
    /\ lndReturn = <<>>

\* return nil, err
ReturnNoClient(e) ==
    /\ lndPc' = "returned"
    /\ lndReturn' = <<[client |-> <<>>, err |-> e]>>

\* Lines 200-204: return &lndClient{connection: conn, ...}, nil
ReturnClient ==
    /\ lndPc' = "returned"
    /\ lndReturn' = <<[client |-> <<[connection |-> conn]>>, err |-> "nil"]>>

\* Lines 148-152, 200-204: the node answers GetInfo, it is unlocked.
NodeUnlocked ==
    /\ lndPc = "check"
    /\ ReturnClient
    /\ UNCHANGED <<otherVars, attempt, conn, lndCalls, lndErr>>

\* Lines 151-159: GetInfo fails with anything but Unimplemented.
NodeUnreachable ==
    /\ lndPc = "check"
    /\ lndErr' = "Unavailable"
    /\ ReturnNoClient("Error on connecting to lnd")
    /\ UNCHANGED <<otherVars, attempt, conn, lndCalls>>

\* Lines 151-175: the node is locked; reading the password or unlocking
\* the wallet fails.
UnlockFailed ==
    /\ lndPc = "check"
    /\ \E e \in {"ReadPassword", "Error on unlocking lnd node"} :
          /\ lndErr' = e
          /\ ReturnNoClient(e)
    /\ UNCHANGED <<otherVars, attempt, conn, lndCalls>>

\* Lines 151-179: the node is locked and UnlockWallet succeeds.
UnlockWallet ==
    /\ lndPc = "check"
    /\ lndErr' = "nil"
    /\ attempt' = 0
    /\ lndPc' = "loop"
    /\ UNCHANGED <<otherVars, conn, lndCalls, lndReturn>>

\* Variant: one more attempt is made.
InLoopOneMore == lndPc = "loop" /\ attempt <= recreateAfterUnlockAttemptsCount

\* Line 179: i < recreateAfterUnlockAttemptsCount
InLoop == lndPc = "loop" /\ attempt < recreateAfterUnlockAttemptsCount

\* Lines 179-185: the connection is closed and the new dial fails.
RedialFailed ==
    /\ InLoop
    /\ conn' = 0
    /\ lndCalls' = Append(lndCalls, Call("Dial", "error"))
    /\ lndErr' = "error"
    /\ ReturnNoClient("Error on connecting to lnd")
    /\ UNCHANGED <<otherVars, attempt>>

\* Lines 179-193: re-dial, probe with GetInfo; the probe fails.
ProbeFailed ==
    /\ InLoop
    /\ conn' = conn + 1
    /\ \E e \in ProbeErrors :
          /\ lndCalls' = lndCalls \o <<Call("Dial", "nil"), Call("GetInfo", e)>>
          /\ lndErr' = e
    /\ attempt' = attempt + 1
    /\ UNCHANGED <<otherVars, lndPc, lndReturn>>

\* Lines 179-192: re-dial, probe with GetInfo; the probe succeeds: break.
ProbeSucceeded ==
    /\ InLoop
    /\ conn' = conn + 1
    /\ lndCalls' = lndCalls \o <<Call("Dial", "nil"), Call("GetInfo", "nil")>>
    /\ lndErr' = "nil"
    /\ lndPc' = "after loop"
    /\ UNCHANGED <<otherVars, attempt, lndReturn>>

\* Line 179: the attempts are used up.
LoopExhausted ==
    /\ lndPc = "loop"
    /\ ~InLoop
    /\ lndPc' = "after loop"
    /\ UNCHANGED <<otherVars, attempt, conn, lndCalls, lndErr, lndReturn>>

\* Lines 194-196
ReturnLastError ==
    /\ lndPc = "after loop"
    /\ lndErr # "nil"
    /\ ReturnNoClient(lndErr)
    /\ UNCHANGED <<otherVars, attempt, conn, lndCalls, lndErr>>

\* Lines 194, 200-204
ReturnRedialled ==
    /\ lndPc = "after loop"
    /\ ~(lndErr # "nil")
    /\ ReturnClient
    /\ UNCHANGED <<otherVars, attempt, conn, lndCalls, lndErr>>

NextLndClient ==
    \/ NodeUnlocked
    \/ NodeUnreachable
    \/ UnlockFailed
    \/ UnlockWallet
    \/ RedialFailed
    \/ ProbeFailed
    \/ ProbeSucceeded
    \/ LoopExhausted
    \/ ReturnLastError
    \/ ReturnRedialled

SpecLndClient == InitLndClient /\ [][NextLndClient]_vars

\* The positions of lndCalls that hold a call of the given name.
CallsOf(name) == {k \in DOMAIN lndCalls : lndCalls[k].call = name}

Probes == CallsOf("GetInfo")

\* C30: after a successful wallet unlock the connection is re-dialled and
\* probed with GetInfo at most 5 times; nothing is dialled or probed after
\* the first successful probe and a client is then returned; if all 5
\* probes fail, or a re-dial fails, an error is returned and no client.
C30_AtMostFiveProbes ==
    /\ Cardinality(CallsOf("Dial")) <= recreateAfterUnlockAttemptsCount
    /\ Cardinality(Probes) <= recreateAfterUnlockAttemptsCount
    /\ \A k \in DOMAIN lndCalls : k < Len(lndCalls) => lndCalls[k].err = "nil" \/ lndCalls[k].call = "GetInfo"
    /\ \A k \in Probes : lndCalls[k].err = "nil" => k = Len(lndCalls)
    /\ (lndPc = "returned" /\ lndCalls # <<>>) =>
          LET last == lndCalls[Len(lndCalls)]
              r    == lndReturn[1]
          IN  /\ (last.call = "GetInfo" /\ last.err = "nil") =>
                    /\ r.err = "nil"
                    /\ r.client = <<[connection |-> conn]>>
              /\ (last.err # "nil") =>
                    /\ r.err # "nil"
                    /\ r.client = <<>>
                    /\ last.call = "Dial"
                          \/ Cardinality(Probes) = recreateAfterUnlockAttemptsCount

\* C30 case: four probes failed and the fifth one succeeded, so the client
\* of the fifth connection is returned.
C30_Witness ==
    /\ lndPc = "returned"
    /\ Cardinality(Probes) = recreateAfterUnlockAttemptsCount
    /\ lndCalls[Len(lndCalls)] = [call |-> "GetInfo", err |-> "nil"]
    /\ lndReturn = <<[client |-> <<[connection |-> conn]>>, err |-> "nil"]>>
====
